---- MODULE Spec2Model ----
(***************************************************************************)
(* The local player worker of src/player/worker.rs: a background loop that *)
(* polls the command channel, applies each PlayerCommand to the librespot  *)
(* session/player handles it owns, drains the player's event channel and   *)
(* reports PlayerEvents back to the UI thread.                             *)
(*                                                                         *)
(* Option<T> is modelled as a sequence of length at most one: None is <<>> *)
(* and Some(x) is <<x>>.  A session or player handle is the ordinal of the *)
(* Session::new / Player::new call that made it.                           *)
(***************************************************************************)
EXTENDS Integers, Sequences, FiniteSets, TLC

(***************************************************************************)
(* Bounds of the model.                                                    *)
(***************************************************************************)
\* commands the UI thread sends during one run
MaxCommands == 3
\* events the librespot player pushes on its event channel during one run
MaxEngineEvents == 1
\* key/value pairs in the query of a callback request
MaxQueryPairs == 3
\* devices in app.devices
MaxRemoteDevices == 3

(***************************************************************************)
(* Option helpers.                                                         *)
(***************************************************************************)
None == <<>>
Some(x) == <<x>>
IsSome(o) == o # <<>>
IsNone(o) == o = <<>>

(***************************************************************************)
(* Inputs.                                                                 *)
(***************************************************************************)
\* u16::MAX
U16Max == 65535
\* current_volume: u16::MAX / 2
DefaultVolume == U16Max \div 2

\* track URIs the UI may put in Load / Preload
ValidUris == {"spotify:track:A", "spotify:track:B"}
InvalidUris == {"not-a-uri"}
Uris == ValidUris \cup InvalidUris
\* arguments of SetVolume (both ends of the u16 range)
Volumes == {0, U16Max}
\* arguments of Seek
Positions == {1000}

\* SpotifyId::from_uri: Ok(id) for a well-formed URI, Err otherwise
SpotifyIdFromUri(uri) ==
  IF uri = "spotify:track:A" THEN Some("A")
  ELSE IF uri = "spotify:track:B" THEN Some("B")
  ELSE None

\* PlayerCommand (commands.rs); Load as built by PlayerCommand::load
PlayerCommand ==
  {[type |-> "Initialize"], [type |-> "Play"], [type |-> "Pause"],
   [type |-> "Stop"], [type |-> "Shutdown"]}
  \cup {[type |-> "Load", uri |-> u, start_playing |-> TRUE, position_ms |-> 0] : u \in Uris}
  \cup {[type |-> "Seek", position_ms |-> p] : p \in Positions}
  \cup {[type |-> "SetVolume", volume |-> v] : v \in Volumes}
  \cup {[type |-> "Preload", uri |-> u] : u \in Uris}

\* the variants of enum PlayerEvent
PlayerEventVariants ==
  {"Initialized", "InitializationFailed", "Playing", "Paused", "Stopped",
   "TrackEnded", "Position", "VolumeChanged", "TimeToPreloadNextTrack",
   "Loading", "Error", "SessionDisconnected", "Shutdown"}

\* kinds of librespot PlayerEvent the engine may emit about the loaded track;
\* "Other" stands for every variant handle_player_event does not map
TrackEventKinds ==
  {"Playing", "Paused", "Stopped", "EndOfTrack", "TimeToPreloadNextTrack",
   "Loading", "Unavailable"}

VARIABLES
  pc,                    \* where PlayerWorker::run is
  command_rx,            \* the command channel: commands sent and not yet received
  sender_alive,          \* the UI still holds the command sender
  session,               \* self.session
  player,                \* self.player
  current_track_uri,     \* self.current_track_uri
  current_volume,        \* self.current_volume
  player_event_channel,  \* run's local: the player whose event channel is held
  was_uninitialized,     \* run's local, while a command is being handled
  engine_events,         \* the held event channel's queue
  engine_track,          \* the track the live player has loaded (engine side)
  event_tx,              \* the event channel: every PlayerEvent sent, in order
  event_rx_alive,        \* the UI still holds the event receiver
  event_rx,              \* the events the channel took in for the receiver
  audio_backend_found,   \* audio_backend::find(config.audio_backend) is Some
  mixer_found,           \* mixer::find(None) is Some (looked up after the backend)
  sent,                  \* history: the commands the UI sent, in order
  consumed,              \* history: the commands try_recv returned, in order
  engine_calls,          \* history: the calls made on a Player, in order
  init_results,          \* history: what each initialize() call returned
  n_engine_events,       \* history: how many events the engine has emitted
  oauth_pc,              \* where get_oauth_credentials is
  state,                 \* get_oauth_credentials' local: the CSRF state generated
  listener,              \* the callback listener is bound
  browser_opened,        \* open::that has been called with the authorization URL
  accepted,              \* how many connections listener.accept() has returned
  request_line,          \* the first line read from the accepted connection
  code,                  \* the authorization code taken from the request line
  token_requests,        \* history: the POSTs sent to the token endpoint
  oauth_result,          \* what get_oauth_credentials returned
  cache,                 \* initialize's local: the credentials cache, if any
  librespot,             \* the build has the librespot feature
  remote_count,          \* app.devices: how many devices the list holds
  selected_device_index, \* app.selected_device_index
  route,                 \* the active block of the current route
  key,                   \* history: the key select_device::handler got last
  io_event               \* history: the IoEvent the handler dispatched last

vars ==
  <<pc, command_rx, sender_alive, session, player, current_track_uri,
    current_volume, player_event_channel, was_uninitialized, engine_events,
    engine_track, event_tx, event_rx_alive, event_rx, audio_backend_found,
    mixer_found, sent, consumed, engine_calls, init_results, n_engine_events,
    oauth_pc, state, listener, browser_opened, accepted, request_line, code,
    token_requests, oauth_result, cache, librespot, remote_count,
    selected_device_index, route, key, io_event>>

\* the fields of PlayerWorker that commands read and write
worker_state == <<session, player, current_track_uri, current_volume>>
config_vars == <<audio_backend_found, mixer_found>>
ui_vars == <<sender_alive, sent, event_rx_alive>>
\* the worker's sender and what has reached the other end of its channel
event_channel == <<event_tx, event_rx>>
engine_vars == <<engine_events, engine_track, n_engine_events>>
\* the locals and effects of initialize's choice of credentials and of one
\* get_oauth_credentials call
oauth_vars ==
  <<oauth_pc, state, listener, browser_opened, accepted, request_line, code,
    token_requests, oauth_result, cache>>
\* the device selection menu of the UI
menu_vars == <<librespot, remote_count, selected_device_index, route, key, io_event>>
\* the worker and its channels outside get_oauth_credentials
run_vars ==
  <<pc, command_rx, sender_alive, session, player, current_track_uri,
    current_volume, player_event_channel, was_uninitialized, engine_events,
    engine_track, event_tx, event_rx_alive, event_rx, audio_backend_found,
    mixer_found, sent, consumed, engine_calls, init_results, n_engine_events>>

\* run has returned: Ok(()) after the final Shutdown event, or Err
Terminated == {"exited", "failed"}

\* the device selection menu has not been opened
MenuNotOpen ==
  /\ librespot = TRUE
  /\ remote_count = 0
  /\ selected_device_index = None
  /\ route = "Library"
  /\ key = "none"
  /\ io_event = None

\* no get_oauth_credentials call has been made
OAuthNotStarted ==
  /\ oauth_pc = "idle"
  /\ state = None
  /\ listener = FALSE
  /\ browser_opened = FALSE
  /\ accepted = 0
  /\ request_line = None
  /\ code = None
  /\ token_requests = <<>>
  /\ oauth_result = None
  /\ cache = None

(***************************************************************************)
(* PlayerWorker::new and spawn_player_worker.                              *)
(***************************************************************************)
\* (variant) spawn_player_worker calling initialize() before the first poll
InitEager ==
  /\ pc = "initialize"
  /\ command_rx = <<>>
  /\ sender_alive = TRUE
  /\ session = None
  /\ player = None
  /\ current_track_uri = None
  /\ current_volume = DefaultVolume
  /\ player_event_channel = None
  /\ was_uninitialized = TRUE
  /\ engine_events = <<>>
  /\ engine_track = None
  /\ event_tx = <<>>
  /\ event_rx_alive = TRUE
  /\ event_rx = <<>>
  /\ audio_backend_found \in BOOLEAN
  /\ mixer_found \in (IF audio_backend_found THEN BOOLEAN ELSE {TRUE})
  /\ sent = <<>>
  /\ consumed = <<>>
  /\ engine_calls = <<>>
  /\ init_results = <<>>
  /\ n_engine_events = 0
  /\ OAuthNotStarted
  /\ MenuNotOpen

Init ==
  /\ pc = "poll"
  /\ command_rx = <<>>
  /\ sender_alive = TRUE
  /\ session = None
  /\ player = None
  /\ current_track_uri = None
  /\ current_volume = DefaultVolume
  /\ player_event_channel = None
  /\ was_uninitialized = FALSE
  /\ engine_events = <<>>
  /\ engine_track = None
  /\ event_tx = <<>>
  /\ event_rx_alive = TRUE
  /\ event_rx = <<>>
  /\ audio_backend_found \in BOOLEAN
  /\ mixer_found \in (IF audio_backend_found THEN BOOLEAN ELSE {TRUE})
  /\ sent = <<>>
  /\ consumed = <<>>
  /\ engine_calls = <<>>
  /\ init_results = <<>>
  /\ n_engine_events = 0
  /\ OAuthNotStarted
  /\ MenuNotOpen

(***************************************************************************)
(* Helpers of the loop.                                                    *)
(***************************************************************************)
\* Option::unwrap_or_default on Option<String>
UnwrapOrDefault(o) == IF IsSome(o) THEN o[1] ELSE ""

\* (variant) try_recv hands out the newest command instead of the oldest
TryRecvNewest(q) == q[Len(q)]

\* mpsc::Receiver::try_recv on a non-empty channel: the oldest command
TryRecv(q) == Head(q)
\* what the channel holds after that try_recv
AfterRecv(q) == Tail(q)

\* a call on the Player handle, logged with the command that caused it
PlayerCall(op, arg) ==
  engine_calls' =
    Append(engine_calls,
           [op |-> op, arg |-> arg, player |-> player, cmd |-> Len(consumed) + 1])

\* (variant) self.event_tx.send(event).unwrap(): no way on once the receiver
\* is gone
SendEventUnwrap(event) ==
  /\ event_rx_alive
  /\ event_tx' = Append(event_tx, event)
  /\ event_rx' = Append(event_rx, event)

\* let _ = self.event_tx.send(event): the channel takes the event while the
\* receiver lives, send returns Err once it is dropped; the result is ignored
SendEvent(event) ==
  /\ event_tx' = Append(event_tx, event)
  /\ event_rx' = IF event_rx_alive THEN Append(event_rx, event) ELSE event_rx

\* run, after handle_command returned Ok(false): the event channel is taken
\* from the player only when the command turned self.player from None to Some
AcquireEventChannel(was_uninit) ==
  IF was_uninit /\ IsSome(player')
    THEN /\ player_event_channel' = player'
         /\ engine_events' = <<>>
    ELSE UNCHANGED <<player_event_channel, engine_events>>

\* (variant) the loop polls the channel while initialize() is still awaited
ReceivedWhileInitializing(type) ==
  /\ pc \in {"poll", "initialize"}
  /\ command_rx # <<>>
  /\ TryRecv(command_rx).type = type
  /\ command_rx' = AfterRecv(command_rx)
  /\ consumed' = Append(consumed, TryRecv(command_rx))

\* try_recv returned Ok(cmd) with cmd of this type
Received(type) ==
  /\ pc = "poll"
  /\ command_rx # <<>>
  /\ TryRecv(command_rx).type = type
  /\ command_rx' = AfterRecv(command_rx)
  /\ consumed' = Append(consumed, TryRecv(command_rx))

(***************************************************************************)
(* The UI thread.                                                          *)
(***************************************************************************)
\* LocalPlayer::send_command: queued while the worker still holds the receiver
UISend(cmd) ==
  /\ sender_alive
  /\ pc \notin Terminated
  /\ Len(sent) < MaxCommands
  /\ command_rx' = Append(command_rx, cmd)
  /\ sent' = Append(sent, cmd)
  /\ UNCHANGED <<pc, sender_alive, event_rx_alive, worker_state,
                 player_event_channel, was_uninitialized, engine_vars,
                 event_channel, config_vars, oauth_vars, menu_vars, consumed, engine_calls,
                 init_results>>

\* the UI drops its LocalPlayer, and with it the only command sender
UIDropSender ==
  /\ sender_alive
  /\ sender_alive' = FALSE
  /\ UNCHANGED <<pc, command_rx, event_rx_alive, worker_state,
                 player_event_channel, was_uninitialized, engine_vars,
                 event_channel, config_vars, oauth_vars, menu_vars, sent, consumed, engine_calls,
                 init_results>>

\* the UI drops the event receiver spawn_player_worker returned
UIDropReceiver ==
  /\ event_rx_alive
  /\ event_rx_alive' = FALSE
  /\ UNCHANGED <<pc, command_rx, sender_alive, sent, worker_state,
                 player_event_channel, was_uninitialized, engine_vars,
                 event_channel, config_vars, oauth_vars, menu_vars, consumed, engine_calls,
                 init_results>>

(***************************************************************************)
(* PlayerWorker::run, the command half of one iteration.                   *)
(***************************************************************************)
\* Err(TryRecvError::Empty)
RecvEmpty ==
  /\ pc = "poll"
  /\ command_rx = <<>>
  /\ sender_alive
  /\ pc' = "drain"
  /\ UNCHANGED <<command_rx, ui_vars, worker_state, player_event_channel,
                 was_uninitialized, engine_vars, event_channel, config_vars, oauth_vars, menu_vars,
                 consumed, engine_calls, init_results>>

\* Err(TryRecvError::Disconnected): break, then the final Shutdown event
RecvDisconnected ==
  /\ pc = "poll"
  /\ command_rx = <<>>
  /\ ~sender_alive
  /\ SendEvent([type |-> "Shutdown"])
  /\ pc' = "exited"
  /\ UNCHANGED <<command_rx, ui_vars, worker_state, player_event_channel,
                 was_uninitialized, engine_vars, config_vars, oauth_vars, menu_vars, consumed,
                 engine_calls, init_results>>

(***************************************************************************)
(* PlayerWorker::handle_command, one action per PlayerCommand variant.     *)
(* Every variant but Initialize is handled without suspension, so the      *)
(* action runs from try_recv to the end of the command half of the loop.   *)
(***************************************************************************)
\* the message of a failed load_track: format!("Failed to load track: {}", e)
LoadError(uri) ==
  IF IsNone(SpotifyIdFromUri(uri))
    THEN <<"Failed to load track: ", "Invalid Spotify URI", uri>>
    ELSE <<"Failed to load track: ", "Player not initialized">>

\* (variant) load_track without its `if let Some(ref player)` test
LoadSucceedsWithoutPlayer(uri) == IsSome(SpotifyIdFromUri(uri))

\* (variant) load_track going on after SpotifyId::from_uri has failed
LoadSucceedsWithoutParsing(uri) == IsSome(player)

\* load_track returns Ok: the URI parses and self.player is Some
LoadSucceeds(uri) == IsSome(SpotifyIdFromUri(uri)) /\ IsSome(player)

\* PlayerCommand::Load
HandleLoad ==
  /\ Received("Load")
  /\ LET cmd == TryRecv(command_rx) IN
       IF LoadSucceeds(cmd.uri)
         THEN /\ current_track_uri' = Some(cmd.uri)
              /\ PlayerCall("load", SpotifyIdFromUri(cmd.uri))
              /\ engine_track' = SpotifyIdFromUri(cmd.uri)
              /\ UNCHANGED event_channel
         ELSE /\ SendEvent([type |-> "Error", message |-> LoadError(cmd.uri)])
              /\ UNCHANGED <<current_track_uri, engine_calls, engine_track>>
  /\ UNCHANGED <<session, player, current_volume>>
  /\ AcquireEventChannel(IsNone(player))
  /\ pc' = "drain"
  /\ UNCHANGED <<ui_vars, was_uninitialized, n_engine_events, config_vars, oauth_vars, menu_vars,
                 init_results>>

\* (variant) Play, Pause, Seek calling the player without testing self.player
PassThroughUnguarded(type, op, arg) ==
  /\ Received(type)
  /\ PlayerCall(op, arg)
  /\ UNCHANGED worker_state
  /\ AcquireEventChannel(IsNone(player))
  /\ pc' = "drain"
  /\ UNCHANGED <<ui_vars, was_uninitialized, engine_track, n_engine_events,
                 event_channel, config_vars, oauth_vars, menu_vars, init_results>>

\* (variant) Play, Pause, Seek reporting an error when there is no player
PassThroughReportsMissingPlayer(type, op, arg) ==
  /\ Received(type)
  /\ IF IsSome(player)
       THEN PlayerCall(op, arg) /\ UNCHANGED event_channel
       ELSE /\ SendEvent([type |-> "Error", message |-> <<"Player not initialized">>])
            /\ UNCHANGED engine_calls
  /\ UNCHANGED worker_state
  /\ AcquireEventChannel(IsNone(player))
  /\ pc' = "drain"
  /\ UNCHANGED <<ui_vars, was_uninitialized, engine_track, n_engine_events,
                 config_vars, oauth_vars, menu_vars, init_results>>

\* Play, Pause, Seek: passed to the player when there is one
PassThrough(type, op, arg) ==
  /\ Received(type)
  /\ IF IsSome(player) THEN PlayerCall(op, arg) ELSE UNCHANGED engine_calls
  /\ UNCHANGED worker_state
  /\ AcquireEventChannel(IsNone(player))
  /\ pc' = "drain"
  /\ UNCHANGED <<ui_vars, was_uninitialized, engine_track, n_engine_events,
                 event_channel, config_vars, oauth_vars, menu_vars, init_results>>

\* PlayerCommand::Play
HandlePlay == PassThrough("Play", "play", None)

\* PlayerCommand::Pause
HandlePause == PassThrough("Pause", "pause", None)

\* PlayerCommand::Seek
HandleSeek == PassThrough("Seek", "seek", Some(TryRecv(command_rx).position_ms))

\* (variant) Stop reporting an error when no track is loaded
HandleStopStrict ==
  /\ Received("Stop")
  /\ IF IsSome(player) THEN PlayerCall("stop", None) ELSE UNCHANGED engine_calls
  /\ IF IsNone(current_track_uri)
       THEN SendEvent([type |-> "Error", message |-> <<"Nothing to stop">>])
       ELSE UNCHANGED event_channel
  /\ current_track_uri' = None
  /\ UNCHANGED <<session, player, current_volume>>
  /\ AcquireEventChannel(IsNone(player))
  /\ pc' = "drain"
  /\ UNCHANGED <<ui_vars, was_uninitialized, engine_track, n_engine_events,
                 config_vars, oauth_vars, menu_vars, init_results>>

\* (variant) Stop that stops the player but keeps self.current_track_uri
HandleStopKeepsTrackUri ==
  /\ Received("Stop")
  /\ IF IsSome(player) THEN PlayerCall("stop", None) ELSE UNCHANGED engine_calls
  /\ UNCHANGED worker_state
  /\ AcquireEventChannel(IsNone(player))
  /\ pc' = "drain"
  /\ UNCHANGED <<ui_vars, was_uninitialized, engine_track, n_engine_events,
                 event_channel, config_vars, oauth_vars, menu_vars, init_results>>

\* PlayerCommand::Stop
HandleStop ==
  /\ Received("Stop")
  /\ IF IsSome(player) THEN PlayerCall("stop", None) ELSE UNCHANGED engine_calls
  /\ current_track_uri' = None
  /\ UNCHANGED <<session, player, current_volume>>
  /\ AcquireEventChannel(IsNone(player))
  /\ pc' = "drain"
  /\ UNCHANGED <<ui_vars, was_uninitialized, engine_track, n_engine_events,
                 event_channel, config_vars, oauth_vars, menu_vars, init_results>>

\* (variant) SetVolume that reports the volume without recording it
VolumeNotRecorded(volume) == current_volume

\* self.current_volume after PlayerCommand::SetVolume(volume)
VolumeAfterSet(volume) == volume

\* PlayerCommand::SetVolume
HandleSetVolume ==
  /\ Received("SetVolume")
  /\ LET volume == TryRecv(command_rx).volume IN
       /\ current_volume' = VolumeAfterSet(volume)
       /\ SendEvent([type |-> "VolumeChanged", volume |-> volume])
  /\ UNCHANGED <<session, player, current_track_uri>>
  /\ AcquireEventChannel(IsNone(player))
  /\ pc' = "drain"
  /\ UNCHANGED <<ui_vars, was_uninitialized, engine_track, n_engine_events,
                 engine_calls, config_vars, oauth_vars, menu_vars, init_results>>

\* PlayerCommand::Preload: preload_track's Err leaves handle_command and run
\* through `?`, so run returns Err without the final Shutdown event
HandlePreload ==
  /\ Received("Preload")
  /\ LET track_id == SpotifyIdFromUri(TryRecv(command_rx).uri) IN
       IF IsNone(track_id)
         THEN /\ pc' = "failed"
              /\ UNCHANGED <<engine_calls, player_event_channel, engine_events>>
         ELSE /\ IF IsSome(player)
                   THEN PlayerCall("preload", track_id)
                   ELSE UNCHANGED engine_calls
              /\ UNCHANGED player
              /\ AcquireEventChannel(IsNone(player))
              /\ pc' = "drain"
  /\ UNCHANGED <<session, player, current_track_uri, current_volume>>
  /\ UNCHANGED <<ui_vars, was_uninitialized, engine_track, n_engine_events,
                 event_channel, config_vars, oauth_vars, menu_vars, init_results>>

\* (variant) Shutdown reporting itself without breaking out of the loop
HandleShutdownKeepsRunning ==
  /\ Received("Shutdown")
  /\ IF IsSome(player) THEN PlayerCall("stop", None) ELSE UNCHANGED engine_calls
  /\ SendEvent([type |-> "Shutdown"])
  /\ pc' = "drain"
  /\ UNCHANGED <<ui_vars, worker_state, player_event_channel,
                 was_uninitialized, engine_vars, config_vars, oauth_vars, menu_vars, init_results>>

\* PlayerCommand::Shutdown: Ok(true), run breaks and sends the final event
HandleShutdown ==
  /\ Received("Shutdown")
  /\ IF IsSome(player) THEN PlayerCall("stop", None) ELSE UNCHANGED engine_calls
  /\ SendEvent([type |-> "Shutdown"])
  /\ pc' = "exited"
  /\ UNCHANGED <<ui_vars, worker_state, player_event_channel,
                 was_uninitialized, engine_vars, config_vars, oauth_vars, menu_vars, init_results>>

(***************************************************************************)
(* PlayerCommand::Initialize.  initialize() awaits the blocking OAuth task *)
(* and the session connect, so the command is taken in one step and        *)
(* resolved in a later one; the UI may send commands in between.           *)
(***************************************************************************)
\* the handle made by the initialize() call now running
NewHandle == Some(Len(init_results) + 1)

\* try_recv returned Initialize: handle_command is inside initialize().await
BeginInitialize ==
  /\ Received("Initialize")
  /\ was_uninitialized' = IsNone(player)
  /\ pc' = "initialize"
  /\ UNCHANGED <<ui_vars, worker_state, player_event_channel, engine_vars,
                 event_channel, config_vars, oauth_vars, menu_vars, engine_calls, init_results>>

\* self.session once initialize() has failed at this step: the session is
\* stored (line 184) before create_player looks up the backend and mixer
SessionAfterFailure(step) ==
  IF step \in {"backend", "mixer"} THEN NewHandle ELSE session

\* (variant) initialize(..).await? : the error leaves handle_command and run
InitializeFailsAndPropagates(step, message) ==
  /\ pc = "initialize"
  /\ session' = IF step \in {"backend", "mixer"} THEN NewHandle ELSE session
  /\ UNCHANGED <<player, current_track_uri, current_volume>>
  /\ init_results' = Append(init_results, step)
  /\ was_uninitialized' = FALSE
  /\ pc' = "failed"
  /\ UNCHANGED <<command_rx, ui_vars, player_event_channel, engine_vars,
                 event_channel, config_vars, oauth_vars, menu_vars, consumed, engine_calls>>

\* the Err arm of handle_command's match on initialize()
InitializeFails(step, message) ==
  /\ pc = "initialize"
  /\ session' = SessionAfterFailure(step)
  /\ UNCHANGED <<player, current_track_uri, current_volume>>
  /\ init_results' = Append(init_results, step)
  /\ SendEvent([type |-> "InitializationFailed", message |-> message])
  /\ AcquireEventChannel(was_uninitialized)
  /\ was_uninitialized' = FALSE
  /\ pc' = "drain"
  /\ UNCHANGED <<command_rx, ui_vars, engine_track, n_engine_events,
                 config_vars, oauth_vars, menu_vars, consumed, engine_calls>>

\* get_oauth_credentials (or its blocking task) returned Err
InitializeCredentialsFail ==
  InitializeFails("credentials", "OAuth failed")

\* session.connect returned Err
InitializeConnectFail ==
  InitializeFails("connect", "Session connect failed")

\* create_player: audio_backend::find returned None
InitializeBackendNotFound ==
  /\ ~audio_backend_found
  /\ InitializeFails("backend", "Audio backend not found")

\* create_player: mixer::find returned None
InitializeNoMixer ==
  /\ audio_backend_found
  /\ ~mixer_found
  /\ InitializeFails("mixer", "No mixer available")

\* (variant) the Ok arm of the match on initialize() sending no event
InitializeOkUnreported ==
  /\ pc = "initialize"
  /\ audio_backend_found
  /\ mixer_found
  /\ session' = NewHandle
  /\ player' = NewHandle
  /\ UNCHANGED <<current_track_uri, current_volume>>
  /\ engine_track' = None
  /\ init_results' = Append(init_results, "ok")
  /\ UNCHANGED event_channel
  /\ AcquireEventChannel(was_uninitialized)
  /\ was_uninitialized' = FALSE
  /\ pc' = "drain"
  /\ UNCHANGED <<command_rx, ui_vars, n_engine_events, config_vars, oauth_vars, menu_vars, consumed,
                 engine_calls>>

\* initialize() returned Ok(()): session and player stored, Initialized sent
InitializeOk ==
  /\ pc = "initialize"
  /\ audio_backend_found
  /\ mixer_found
  /\ session' = NewHandle
  /\ player' = NewHandle
  /\ UNCHANGED <<current_track_uri, current_volume>>
  /\ engine_track' = None
  /\ init_results' = Append(init_results, "ok")
  /\ SendEvent([type |-> "Initialized"])
  /\ AcquireEventChannel(was_uninitialized)
  /\ was_uninitialized' = FALSE
  /\ pc' = "drain"
  /\ UNCHANGED <<command_rx, ui_vars, n_engine_events, config_vars, oauth_vars, menu_vars, consumed,
                 engine_calls>>

(***************************************************************************)
(* The librespot player, on its own thread.                                *)
(***************************************************************************)
\* the player behind the held event channel is the live one
ChannelLive == IsSome(player_event_channel) /\ player_event_channel = player

\* the engine reports on the track it has loaded
EngineEmitTrackEvent(kind) ==
  /\ ChannelLive
  /\ IsSome(engine_track)
  /\ n_engine_events < MaxEngineEvents
  /\ engine_events' =
       Append(engine_events,
              [kind |-> kind, track_id |-> engine_track[1], position_ms |-> 1000])
  /\ n_engine_events' = n_engine_events + 1
  /\ UNCHANGED <<pc, command_rx, ui_vars, worker_state, player_event_channel,
                 was_uninitialized, engine_track, event_channel, config_vars, oauth_vars, menu_vars,
                 consumed, engine_calls, init_results>>

\* any other librespot event (volume, session, shuffle, ...)
EngineEmitOther ==
  /\ ChannelLive
  /\ n_engine_events < MaxEngineEvents
  /\ engine_events' = Append(engine_events, [kind |-> "Other"])
  /\ n_engine_events' = n_engine_events + 1
  /\ UNCHANGED <<pc, command_rx, ui_vars, worker_state, player_event_channel,
                 was_uninitialized, engine_track, event_channel, config_vars, oauth_vars, menu_vars,
                 consumed, engine_calls, init_results>>

(***************************************************************************)
(* PlayerWorker::run, the event half of one iteration.                     *)
(***************************************************************************)
\* (variant) a match whose wildcard arm reports the event as Stopped
HandlePlayerEventWildcardStopped(event) ==
  CASE event.kind = "Playing" ->
         Some([type |-> "Playing",
               track_uri |-> UnwrapOrDefault(current_track_uri),
               position_ms |-> event.position_ms,
               duration_ms |-> 0])
    [] event.kind = "Paused" ->
         Some([type |-> "Paused",
               track_uri |-> UnwrapOrDefault(current_track_uri),
               position_ms |-> event.position_ms])
    [] event.kind = "EndOfTrack" ->
         Some([type |-> "TrackEnded",
               track_uri |-> UnwrapOrDefault(current_track_uri)])
    [] event.kind = "TimeToPreloadNextTrack" ->
         Some([type |-> "TimeToPreloadNextTrack"])
    [] event.kind = "Loading" ->
         Some([type |-> "Loading",
               track_uri |-> UnwrapOrDefault(current_track_uri)])
    [] event.kind = "Unavailable" ->
         Some([type |-> "Error",
               message |-> <<"Track unavailable: ", event.track_id>>])
    [] OTHER -> Some([type |-> "Stopped"])

\* (variant) a match whose wildcard arm reports SessionDisconnected
HandlePlayerEventWildcardDisconnected(event) ==
  IF event.kind \in TrackEventKinds
    THEN HandlePlayerEventWildcardStopped(event)
    ELSE Some([type |-> "SessionDisconnected"])

\* handle_player_event's match: the PlayerEvent for a librespot event, if any
HandlePlayerEvent(event) ==
  CASE event.kind = "Playing" ->
         Some([type |-> "Playing",
               track_uri |-> UnwrapOrDefault(current_track_uri),
               position_ms |-> event.position_ms,
               duration_ms |-> 0])
    [] event.kind = "Paused" ->
         Some([type |-> "Paused",
               track_uri |-> UnwrapOrDefault(current_track_uri),
               position_ms |-> event.position_ms])
    [] event.kind = "Stopped" -> Some([type |-> "Stopped"])
    [] event.kind = "EndOfTrack" ->
         Some([type |-> "TrackEnded",
               track_uri |-> UnwrapOrDefault(current_track_uri)])
    [] event.kind = "TimeToPreloadNextTrack" ->
         Some([type |-> "TimeToPreloadNextTrack"])
    [] event.kind = "Loading" ->
         Some([type |-> "Loading",
               track_uri |-> UnwrapOrDefault(current_track_uri)])
    [] event.kind = "Unavailable" ->
         Some([type |-> "Error",
               message |-> <<"Track unavailable: ", event.track_id>>])
    [] OTHER -> None

\* (variant) the drain dropping the current track when the engine reports a
\* track unavailable
DrainEventForgetsUnavailableTrack ==
  /\ pc = "drain"
  /\ IsSome(player_event_channel)
  /\ engine_events # <<>>
  /\ LET player_event == HandlePlayerEvent(Head(engine_events)) IN
       IF IsSome(player_event)
         THEN SendEvent(player_event[1])
         ELSE UNCHANGED event_channel
  /\ engine_events' = Tail(engine_events)
  /\ current_track_uri' =
       IF Head(engine_events).kind = "Unavailable" THEN None ELSE current_track_uri
  /\ UNCHANGED <<pc, command_rx, ui_vars, session, player, current_volume,
                 player_event_channel, was_uninitialized, engine_track,
                 n_engine_events, config_vars, oauth_vars, menu_vars, consumed, engine_calls,
                 init_results>>

\* while let Ok(event) = events.try_recv(): one event handled
DrainEvent ==
  /\ pc = "drain"
  /\ IsSome(player_event_channel)
  /\ engine_events # <<>>
  /\ LET player_event == HandlePlayerEvent(Head(engine_events)) IN
       IF IsSome(player_event)
         THEN SendEvent(player_event[1])
         ELSE UNCHANGED event_channel
  /\ engine_events' = Tail(engine_events)
  /\ UNCHANGED <<pc, command_rx, ui_vars, worker_state, player_event_channel,
                 was_uninitialized, engine_track, n_engine_events, config_vars, oauth_vars, menu_vars,
                 consumed, engine_calls, init_results>>

\* no event channel, or try_recv on it returned Err: sleep, next iteration
Sleep ==
  /\ pc = "drain"
  /\ IsNone(player_event_channel) \/ engine_events = <<>>
  /\ pc' = "poll"
  /\ UNCHANGED <<command_rx, ui_vars, worker_state, player_event_channel,
                 was_uninitialized, engine_vars, event_channel, config_vars, oauth_vars, menu_vars,
                 consumed, engine_calls, init_results>>

(***************************************************************************)
(* The system.                                                             *)
(***************************************************************************)
Next ==
  \/ \E cmd \in PlayerCommand : UISend(cmd)
  \/ UIDropSender
  \/ RecvEmpty
  \/ RecvDisconnected
  \/ BeginInitialize
  \/ InitializeCredentialsFail
  \/ InitializeConnectFail
  \/ InitializeBackendNotFound
  \/ InitializeNoMixer
  \/ InitializeOk
  \/ HandleLoad
  \/ HandlePlay
  \/ HandlePause
  \/ HandleStop
  \/ HandleSeek
  \/ HandleSetVolume
  \/ HandlePreload
  \/ HandleShutdown
  \/ \E kind \in TrackEventKinds : EngineEmitTrackEvent(kind)
  \/ EngineEmitOther
  \/ DrainEvent
  \/ Sleep

\* the steps that are the worker thread's own
WorkerStep ==
  \/ RecvEmpty
  \/ RecvDisconnected
  \/ BeginInitialize
  \/ InitializeCredentialsFail
  \/ InitializeConnectFail
  \/ InitializeBackendNotFound
  \/ InitializeNoMixer
  \/ InitializeOk
  \/ HandleLoad
  \/ HandlePlay
  \/ HandlePause
  \/ HandleStop
  \/ HandleSeek
  \/ HandleSetVolume
  \/ HandlePreload
  \/ HandleShutdown
  \/ DrainEvent
  \/ Sleep

Spec == Init /\ [][Next]_vars

\* the same system with a UI that may also let go of the event receiver
NextRx == Next \/ UIDropReceiver
SpecRx == Init /\ [][NextRx]_vars

(***************************************************************************)
(* PlayerWorker::get_oauth_credentials, one call of it, step by step.  It  *)
(* runs on a blocking thread while handle_command awaits initialize().     *)
(*                                                                         *)
(* A request line is the sequence of its whitespace-separated tokens.  A   *)
(* token is a record: text names it, and query is what Url::parse of       *)
(* "http://localhost" followed by the token gives: None when that is not   *)
(* a URL, else Some of the query's key/value pairs as sent, in order.      *)
(***************************************************************************)
\* the states rand may generate (base64url text)
States == {"S1", "S2"}

\* key/value pairs a callback request may carry; "S%31" is "S1" with its
\* second character percent-encoded
QueryPairs ==
  {<<"code", "C1">>, <<"state", "S1">>, <<"state", "S2">>, <<"state", "S%31">>,
   <<"error", "access_denied">>}

Queries == UNION {[1..n -> QueryPairs] : n \in 0..MaxQueryPairs}

\* the request lines a client may send: nothing, a method alone, a path that
\* makes no URL, or a path with a query
RequestLines ==
  {<<>>, <<[text |-> "GET", query |-> Some(<<>>)]>>}
  \cup {<<[text |-> "GET", query |-> Some(<<>>)],
          [text |-> ":x", query |-> None],
          [text |-> "HTTP/1.1", query |-> None]>>}
  \cup {<<[text |-> "GET", query |-> Some(<<>>)],
          [text |-> "/login", query |-> Some(q)],
          [text |-> "HTTP/1.1", query |-> None]>> : q \in Queries}

\* what initialize may have for a cache: none (no config.cache_path, or
\* Cache::new failed), or one with or without stored credentials
Caches == {None} \cup {Some([credentials |-> k]) : k \in {None, Some("cached")}}

\* what the token endpoint may answer
TokenOutcomes == {"send_error", "not_success", "bad_json", "no_access_token", "ok"}

\* url's percent-decoding of a query value
PercentDecode(value) == IF value = "S%31" THEN "S1" ELSE value

\* url.query_pairs().find(|(key, _)| key == k).map(|(_, value)| value.to_string())
FindPair(query, k) ==
  LET hits == {i \in 1..Len(query) : query[i][1] = k} IN
    IF hits = {}
      THEN None
      ELSE Some(PercentDecode(query[CHOOSE i \in hits : \A j \in hits : i <= j][2]))

\* request_line.split_whitespace().nth(1).and_then(|path| Url::parse(..).ok()
\*   .and_then(|url| ..find(k)..))
QueryParam(line, k) ==
  IF Len(line) < 2 THEN None
  ELSE IF IsNone(line[2].query) THEN None
  ELSE FindPair(line[2].query[1], k)

\* return Err(..), by `?` or by `return`
OAuthFails(error) ==
  /\ oauth_result' = Some([ok |-> FALSE, error |-> error])
  /\ oauth_pc' = "done"

\* lines 107-123: the cache is set up if config.cache_path names one
SetupCache ==
  /\ pc = "initialize"
  /\ oauth_pc = "idle"
  /\ \E c \in Caches : cache' = c
  /\ oauth_pc' = "credentials"
  /\ UNCHANGED <<state, listener, browser_opened, accepted, request_line, code,
                 token_requests, oauth_result, run_vars, menu_vars>>

\* cache.credentials() is Some(creds)
HasCachedCredentials == IsSome(cache) /\ IsSome(cache[1].credentials)

\* lines 126-132: the cached credentials are the credentials
UseCachedCredentials ==
  /\ oauth_pc = "credentials"
  /\ HasCachedCredentials
  /\ oauth_pc' = "cached"
  /\ UNCHANGED <<state, listener, browser_opened, accepted, request_line, code,
                 token_requests, oauth_result, cache, run_vars, menu_vars>>

\* (variant) the OAuth flow started whatever the cache holds
GenerateStateIgnoringCache ==
  /\ oauth_pc = "credentials"
  /\ \E s \in States : state' = Some(s)
  /\ oauth_pc' = "bind"
  /\ UNCHANGED <<listener, browser_opened, accepted, request_line, code,
                 token_requests, oauth_result, cache, run_vars, menu_vars>>

\* lines 133-151: without cached credentials get_oauth_credentials is called;
\* lines 242-258: verifier, challenge and state are generated
GenerateState ==
  /\ oauth_pc = "credentials"
  /\ ~HasCachedCredentials
  /\ \E s \in States : state' = Some(s)
  /\ oauth_pc' = "bind"
  /\ UNCHANGED <<listener, browser_opened, accepted, request_line, code,
                 token_requests, oauth_result, cache, run_vars, menu_vars>>

\* TcpListener::bind(..)?
BindListener ==
  /\ oauth_pc = "bind"
  /\ \/ listener' = TRUE /\ oauth_pc' = "browser" /\ UNCHANGED oauth_result
     \/ OAuthFails(<<"io", "bind">>) /\ UNCHANGED listener
  /\ UNCHANGED <<state, browser_opened, accepted, request_line, code,
                 token_requests, cache, run_vars, menu_vars>>

\* (variant) the browser opened as soon as the URL is built, before the bind
OpenBrowserBeforeBind ==
  /\ \/ oauth_pc = "bind" /\ ~browser_opened /\ oauth_pc' = "bind"
     \/ oauth_pc = "browser" /\ oauth_pc' = "accept"
  /\ browser_opened' = TRUE
  /\ UNCHANGED <<state, listener, accepted, request_line, code, token_requests,
                 oauth_result, cache, run_vars, menu_vars>>

\* open::that(&auth_url): a failure is printed and the flow goes on
OpenBrowser ==
  /\ oauth_pc = "browser"
  /\ browser_opened' = TRUE
  /\ oauth_pc' = "accept"
  /\ UNCHANGED <<state, listener, accepted, request_line, code, token_requests,
                 oauth_result, cache, run_vars, menu_vars>>

\* listener.accept()?
AcceptConnection ==
  /\ oauth_pc = "accept"
  /\ \/ accepted' = accepted + 1 /\ oauth_pc' = "read" /\ UNCHANGED oauth_result
     \/ OAuthFails(<<"io", "accept">>) /\ UNCHANGED accepted
  /\ UNCHANGED <<state, listener, browser_opened, request_line, code,
                 token_requests, cache, run_vars, menu_vars>>

\* reader.read_line(&mut request_line)?
ReadRequestLine ==
  /\ oauth_pc = "read"
  /\ \/ /\ \E line \in RequestLines : request_line' = Some(line)
        /\ oauth_pc' = "parse"
        /\ UNCHANGED oauth_result
     \/ OAuthFails(<<"io", "read_line">>) /\ UNCHANGED request_line
  /\ UNCHANGED <<state, listener, browser_opened, accepted, code,
                 token_requests, cache, run_vars, menu_vars>>

\* (variant) the callback handled without comparing the returned state
ParseCallbackWithoutStateCheck ==
  /\ oauth_pc = "parse"
  /\ LET found == QueryParam(request_line[1], "code") IN
       IF IsNone(found)
         THEN OAuthFails(<<"Failed to extract authorization code">>)
              /\ UNCHANGED code
         ELSE code' = found /\ oauth_pc' = "respond" /\ UNCHANGED oauth_result
  /\ UNCHANGED <<state, listener, browser_opened, accepted, request_line,
                 token_requests, cache, run_vars, menu_vars>>

\* (variant) a request without a code is passed over and the next connection
\* awaited
ParseCallbackAwaitsNextConnection ==
  /\ oauth_pc = "parse"
  /\ LET found == QueryParam(request_line[1], "code")
         returned_state == QueryParam(request_line[1], "state")
     IN  IF IsNone(found)
           THEN oauth_pc' = "accept" /\ UNCHANGED <<code, oauth_result>>
         ELSE IF returned_state # state
           THEN OAuthFails(<<"CSRF state mismatch">>) /\ UNCHANGED code
         ELSE code' = found /\ oauth_pc' = "respond" /\ UNCHANGED oauth_result
  /\ UNCHANGED <<state, listener, browser_opened, accepted, request_line,
                 token_requests, cache, run_vars, menu_vars>>

\* lines 293-322: the code is taken from the request line, then the state
\* is taken from it and compared with the generated one
ParseCallback ==
  /\ oauth_pc = "parse"
  /\ LET found == QueryParam(request_line[1], "code")
         returned_state == QueryParam(request_line[1], "state")
     IN  IF IsNone(found)
           THEN OAuthFails(<<"Failed to extract authorization code">>)
                /\ UNCHANGED code
         ELSE IF returned_state # state
           THEN OAuthFails(<<"CSRF state mismatch">>) /\ UNCHANGED code
         ELSE code' = found /\ oauth_pc' = "respond" /\ UNCHANGED oauth_result
  /\ UNCHANGED <<state, listener, browser_opened, accepted, request_line,
                 token_requests, cache, run_vars, menu_vars>>

\* stream.write_all(response.as_bytes())?
WriteResponse ==
  /\ oauth_pc = "respond"
  /\ \/ oauth_pc' = "token" /\ UNCHANGED oauth_result
     \/ OAuthFails(<<"io", "write_all">>)
  /\ UNCHANGED <<state, listener, browser_opened, accepted, request_line, code,
                 token_requests, cache, run_vars, menu_vars>>

\* what get_oauth_credentials returns for an answer of the token endpoint
TokenResult(outcome) ==
  CASE outcome = "send_error" -> [ok |-> FALSE, error |-> <<"Token request failed: ">>]
    [] outcome = "not_success" -> [ok |-> FALSE, error |-> <<"Token exchange failed: ">>]
    [] outcome = "bad_json" ->
         [ok |-> FALSE, error |-> <<"Failed to parse token response: ">>]
    [] outcome = "no_access_token" ->
         [ok |-> FALSE, error |-> <<"No access_token in response">>]
    [] OTHER -> [ok |-> TRUE, access_token |-> "T"]

\* lines 333-362: the POST to the token endpoint and the reading of its answer
TokenExchange ==
  /\ oauth_pc = "token"
  /\ token_requests' =
       Append(token_requests, [grant_type |-> "authorization_code", code |-> code[1]])
  /\ \E outcome \in TokenOutcomes : oauth_result' = Some(TokenResult(outcome))
  /\ oauth_pc' = "done"
  /\ UNCHANGED <<state, listener, browser_opened, accepted, request_line, code,
                 cache, run_vars, menu_vars>>

\* handle_command is inside initialize().await and no credentials are cached
InitOAuth ==
  /\ pc = "initialize"
  /\ command_rx = <<>>
  /\ sender_alive = TRUE
  /\ session = None
  /\ player = None
  /\ current_track_uri = None
  /\ current_volume = DefaultVolume
  /\ player_event_channel = None
  /\ was_uninitialized = TRUE
  /\ engine_events = <<>>
  /\ engine_track = None
  /\ event_tx = <<>>
  /\ event_rx_alive = TRUE
  /\ event_rx = <<>>
  /\ audio_backend_found = TRUE
  /\ mixer_found = TRUE
  /\ sent = <<[type |-> "Initialize"]>>
  /\ consumed = <<[type |-> "Initialize"]>>
  /\ engine_calls = <<>>
  /\ init_results = <<>>
  /\ n_engine_events = 0
  /\ OAuthNotStarted
  /\ MenuNotOpen

NextOAuth ==
  \/ SetupCache
  \/ UseCachedCredentials
  \/ GenerateState
  \/ BindListener
  \/ OpenBrowser
  \/ AcceptConnection
  \/ ReadRequestLine
  \/ ParseCallback
  \/ WriteResponse
  \/ TokenExchange

SpecOAuth == InitOAuth /\ [][NextOAuth]_vars

(***************************************************************************)
(* handlers/select_device.rs: the keys of the device selection menu.  The  *)
(* handler gets the keys while SelectDevice is the active block.  Indices  *)
(* are usize; the code subtracts only from a count or index it has tested  *)
(* to be positive.                                                         *)
(***************************************************************************)
\* the keys told apart by handler's match; "other" is the `_` arm
Keys == {"down", "up", "high", "middle", "low", "esc", "enter", "other"}

\* get_device_count
get_device_count == remote_count + (IF librespot THEN 1 ELSE 0)

\* (variant) down stepping past the last entry
DownIndexWithoutWrap(selected, device_count) == selected + 1

\* the down arm's next_index
DownIndex(selected, device_count) ==
  IF selected >= device_count - 1 THEN 0 ELSE selected + 1

\* the up arm's next_index
UpIndex(selected, device_count) ==
  IF selected = 0 THEN device_count - 1 ELSE selected - 1

\* app.selected_device_index after handler(k, app)
SelectedAfter(k) ==
  LET device_count == get_device_count IN
  IF device_count = 0 THEN selected_device_index
  ELSE CASE k = "down" ->
              IF IsSome(selected_device_index)
                THEN Some(DownIndex(selected_device_index[1], device_count))
                ELSE selected_device_index
         [] k = "up" ->
              IF IsSome(selected_device_index)
                THEN Some(UpIndex(selected_device_index[1], device_count))
                ELSE selected_device_index
         [] k = "high" -> Some(0)
         [] k = "middle" -> Some(device_count \div 2)
         [] k = "low" -> Some(device_count - 1)
         [] OTHER -> selected_device_index

\* the Enter arm: what is dispatched for the selected entry, if anything
\* (every listed device is taken to have an id)
DispatchedOnEnter ==
  IF IsNone(selected_device_index) THEN None
  ELSE LET index == selected_device_index[1] IN
       IF librespot
         THEN IF index = 0 THEN Some(<<"SwitchToLocalPlayback">>)
              ELSE IF index - 1 < remote_count
                THEN Some(<<"TransferPlaybackToDevice", index - 1>>)
                ELSE None
         ELSE IF index < remote_count
                THEN Some(<<"TransferPlaybackToDevice", index>>)
                ELSE None

\* handler(key, app)
HandleKey(k) ==
  /\ route = "SelectDevice"
  /\ key' = k
  /\ selected_device_index' = SelectedAfter(k)
  /\ route' = IF k = "esc" THEN "Library" ELSE route
  /\ io_event' =
       IF k = "enter" /\ IsSome(DispatchedOnEnter) THEN DispatchedOnEnter ELSE io_event
  /\ UNCHANGED <<librespot, remote_count, run_vars, oauth_vars>>

\* the menu is open on some device list, with nothing or an entry selected
InitMenu ==
  /\ pc = "poll"
  /\ command_rx = <<>>
  /\ sender_alive = TRUE
  /\ session = None
  /\ player = None
  /\ current_track_uri = None
  /\ current_volume = DefaultVolume
  /\ player_event_channel = None
  /\ was_uninitialized = FALSE
  /\ engine_events = <<>>
  /\ engine_track = None
  /\ event_tx = <<>>
  /\ event_rx_alive = TRUE
  /\ event_rx = <<>>
  /\ audio_backend_found = TRUE
  /\ mixer_found = TRUE
  /\ sent = <<>>
  /\ consumed = <<>>
  /\ engine_calls = <<>>
  /\ init_results = <<>>
  /\ n_engine_events = 0
  /\ OAuthNotStarted
  /\ librespot \in BOOLEAN
  /\ remote_count \in 0..MaxRemoteDevices
  /\ selected_device_index \in
       {None} \cup {Some(i) : i \in 0..(remote_count + (IF librespot THEN 1 ELSE 0) - 1)}
  /\ route = "SelectDevice"
  /\ key = "none"
  /\ io_event = None

NextMenu == \E k \in Keys : HandleKey(k)

SpecMenu == InitMenu /\ [][NextMenu]_vars

(***************************************************************************)
(* Vocabulary of the properties.                                           *)
(***************************************************************************)
Last(s) == s[Len(s)]
CountType(events, type) ==
  Cardinality({i \in 1..Len(events) : events[i].type = type})
\* some initialize() call has returned Ok(())
InitializeSucceeded == \E i \in 1..Len(init_results) : init_results[i] = "ok"
\* this step is the worker taking a command of one of these types off the channel
Takes(types) ==
  /\ pc = "poll"
  /\ command_rx # <<>>
  /\ Head(command_rx).type \in types
  /\ Len(consumed') = Len(consumed) + 1
\* this step puts exactly this one event on the event channel
EmitsOnly(event) == event_tx' = Append(event_tx, event)
\* this step puts exactly one event on the event channel, of this type
EmitsOne(type) ==
  /\ Len(event_tx') = Len(event_tx) + 1
  /\ SubSeq(event_tx', 1, Len(event_tx)) = event_tx
  /\ Last(event_tx').type = type

(***************************************************************************)
(* C1. Once the UI has sent Shutdown, a worker whose run has returned has  *)
(* put exactly one Shutdown event on the event channel (and at no time     *)
(* more than one).  Stated on the final state: run returns only once, so   *)
(* no Shutdown event can follow.                                           *)
(***************************************************************************)
C1_ShutdownYieldsOneShutdownEvent ==
  /\ CountType(event_tx, "Shutdown") <= 1
  /\ (pc \in Terminated /\ \E i \in 1..Len(sent) : sent[i].type = "Shutdown")
       => CountType(event_tx, "Shutdown") = 1

(***************************************************************************)
(* C2. A Load or Preload that fails (its URI does not parse, or there is   *)
(* no player) puts exactly one Error event on the event channel and the    *)
(* loop goes on.                                                           *)
(***************************************************************************)
C2_LoadPreloadFailureIsAnErrorEvent ==
  [][(/\ Takes({"Load", "Preload"})
      /\ IsNone(SpotifyIdFromUri(Head(command_rx).uri)) \/ IsNone(player))
     => (EmitsOne("Error") /\ pc' \notin Terminated)]_vars

(***************************************************************************)
(* C3. An initialize() that fails at any step puts exactly one             *)
(* InitializationFailed event (and no Initialized) on the event channel    *)
(* and the loop goes on to its event half; whatever failed before, an      *)
(* Initialize at the head of the command channel is taken and attempted.   *)
(***************************************************************************)
C3_FailedInitializeIsReportedAndRetried ==
  /\ [][(pc = "initialize" /\ Len(init_results') = Len(init_results) + 1
          /\ Last(init_results') # "ok")
        => (EmitsOne("InitializationFailed") /\ pc' = "drain")]_vars
  /\ [](CountType(event_tx, "InitializationFailed")
          = Cardinality({i \in 1..Len(init_results) : init_results[i] # "ok"}))
  /\ []((pc = "poll" /\ command_rx # <<>> /\ Head(command_rx).type = "Initialize")
          => ENABLED BeginInitialize)

\* an Initialize failed and a second Initialize has then been attempted
C3_Witness ==
  /\ Len(init_results) >= 2
  /\ init_results[1] # "ok"
  /\ event_tx[1].type = "InitializationFailed"
  /\ pc \notin Terminated

(***************************************************************************)
(* C4. While no initialize() has returned Ok, self.session and self.player *)
(* are both None.                                                          *)
(***************************************************************************)
C4_HandlesNoneUntilInitializeSucceeds ==
  ~InitializeSucceeded => (IsNone(session) /\ IsNone(player))

(***************************************************************************)
(* C5 as claimed. Until an initialize() has returned Ok, taking a Load,    *)
(* Play, Pause, Stop, Seek, SetVolume or Preload leaves session, player,   *)
(* current_track_uri and current_volume as they were and calls no player;  *)
(* taking a Shutdown ends the loop.                                        *)
(***************************************************************************)
C5_NothingAppliedBeforeInitialize ==
  [][~InitializeSucceeded =>
       /\ Takes({"Load", "Play", "Pause", "Stop", "Seek", "SetVolume", "Preload"})
            => (worker_state' = worker_state /\ engine_calls' = engine_calls)
       /\ Takes({"Shutdown"}) => pc' = "exited"]_vars

(***************************************************************************)
(* C5 as amended. Until an initialize() has returned Ok, taking a Load,    *)
(* Play, Pause, Stop, Seek or Preload leaves session, player,              *)
(* current_track_uri and current_volume as they were and calls no player;  *)
(* taking SetVolume(v) sets current_volume to v, changes no other field    *)
(* and calls no player; taking a Shutdown ends the loop.                   *)
(***************************************************************************)
C5_OnlySetVolumeAppliedBeforeInitialize ==
  [][~InitializeSucceeded =>
       /\ Takes({"Load", "Play", "Pause", "Stop", "Seek", "Preload"})
            => (worker_state' = worker_state /\ engine_calls' = engine_calls)
       /\ Takes({"SetVolume"})
            => /\ current_volume' = Head(command_rx).volume
               /\ UNCHANGED <<session, player, current_track_uri>>
               /\ engine_calls' = engine_calls
       /\ Takes({"Shutdown"}) => pc' = "exited"]_vars

\* with no initialize() ever Ok, a valid Load, a Play and a SetVolume were taken
C5_Witness ==
  /\ ~InitializeSucceeded
  /\ \E i, j, k \in 1..Len(consumed) :
       /\ consumed[i].type = "Load" /\ consumed[i].uri \in ValidUris
       /\ consumed[j].type = "Play"
       /\ consumed[k].type = "SetVolume"
  /\ current_volume # 32767
  /\ engine_calls = <<>>
  /\ IsNone(current_track_uri)

(***************************************************************************)
(* C6. The commands taken so far, followed by those still in the channel,  *)
(* are exactly the commands sent, in the order sent; and the player calls  *)
(* made so far were caused by taken commands of increasing position, each  *)
(* call being the one its command stands for.                              *)
(***************************************************************************)
C6_CallOf(type) ==
  CASE type = "Load" -> "load"
    [] type = "Play" -> "play"
    [] type = "Pause" -> "pause"
    [] type = "Stop" -> "stop"
    [] type = "Seek" -> "seek"
    [] type = "Preload" -> "preload"
    [] type = "Shutdown" -> "stop"
    [] OTHER -> "none"

C6_CommandsAppliedInOrderSent ==
  /\ sent = consumed \o command_rx
  /\ \A i \in 1..Len(engine_calls) :
       /\ engine_calls[i].cmd \in 1..Len(consumed)
       /\ engine_calls[i].op = C6_CallOf(sent[engine_calls[i].cmd].type)
       /\ i > 1 => engine_calls[i - 1].cmd < engine_calls[i].cmd

\* two different player calls were made, for two commands taken in turn
C6_Witness ==
  /\ Len(engine_calls) >= 2
  /\ engine_calls[1].op # engine_calls[2].op

(***************************************************************************)
(* C7. When try_recv reports the command channel disconnected, the worker  *)
(* does what it does for Shutdown: calls stop on the player if there is    *)
(* one, leaves the loop and sends the final Shutdown event.                *)
(***************************************************************************)
C7_DisconnectActsLikeShutdown ==
  [][(pc = "poll" /\ command_rx = <<>> /\ ~sender_alive /\ pc' # pc)
     => /\ pc' = "exited"
        /\ EmitsOnly([type |-> "Shutdown"])
        /\ IF IsSome(player)
             THEN /\ Len(engine_calls') = Len(engine_calls) + 1
                  /\ Last(engine_calls').op = "stop"
             ELSE engine_calls' = engine_calls]_vars

(***************************************************************************)
(* C8. current_volume is 32767 until the first SetVolume is taken and then *)
(* the argument of the SetVolume taken last, whether or not a player       *)
(* exists; and the VolumeChanged events sent carry, one for one and in     *)
(* order, the arguments of the SetVolume commands taken.                   *)
(***************************************************************************)
C8_IsSetVolume(cmd) == cmd.type = "SetVolume"
C8_IsVolumeChanged(event) == event.type = "VolumeChanged"
C8_VolumesOf(s) == [i \in 1..Len(s) |-> s[i].volume]

C8_SetVolumeRecordedAndReported ==
  LET taken == C8_VolumesOf(SelectSeq(consumed, C8_IsSetVolume))
      reported == C8_VolumesOf(SelectSeq(event_tx, C8_IsVolumeChanged))
  IN /\ reported = taken
     /\ current_volume = IF taken = <<>> THEN 32767 ELSE Last(taken)
     /\ current_volume \in 0..65535

\* SetVolume(65535) taken before the player exists, SetVolume(0) after
C8_Witness ==
  /\ Len(event_tx) = 3
  /\ event_tx[1] = [type |-> "VolumeChanged", volume |-> 65535]
  /\ event_tx[2].type = "Initialized"
  /\ event_tx[3] = [type |-> "VolumeChanged", volume |-> 0]
  /\ current_volume = 0
  /\ IsSome(player)

(***************************************************************************)
(* C9 as claimed. Taking a Load while self.player is None sends exactly    *)
(* one Error event, whose message says the player is not initialized,      *)
(* calls no player and leaves current_track_uri None.                      *)
(***************************************************************************)
C9_LoadWithoutPlayerSaysNotInitialized ==
  [][(Takes({"Load"}) /\ IsNone(player))
     => /\ EmitsOnly([type |-> "Error",
                      message |-> <<"Failed to load track: ", "Player not initialized">>])
        /\ engine_calls' = engine_calls
        /\ current_track_uri = None
        /\ current_track_uri' = None]_vars

(***************************************************************************)
(* C9 as amended. Taking a Load while self.player is None sends exactly    *)
(* one Error event, calls no player and leaves current_track_uri None; the *)
(* message says the player is not initialized when the URI parses, and     *)
(* names the invalid URI when it does not.                                 *)
(***************************************************************************)
C9_LoadWithoutPlayerIsAnError ==
  [][(Takes({"Load"}) /\ IsNone(player))
     => LET uri == Head(command_rx).uri IN
        /\ EmitsOnly([type |-> "Error",
                      message |->
                        IF uri \in ValidUris
                          THEN <<"Failed to load track: ", "Player not initialized">>
                          ELSE <<"Failed to load track: ", "Invalid Spotify URI", uri>>])
        /\ engine_calls' = engine_calls
        /\ current_track_uri = None
        /\ current_track_uri' = None]_vars

\* without a player, a Load of a valid URI and a Load of an invalid one were taken
C9_Witness ==
  /\ IsNone(player)
  /\ \E i, j \in 1..Len(event_tx) :
       /\ event_tx[i] = [type |-> "Error",
                         message |-> <<"Failed to load track: ", "Player not initialized">>]
       /\ event_tx[j].type = "Error"
       /\ event_tx[j].message[2] = "Invalid Spotify URI"
  /\ IsNone(current_track_uri)
  /\ pc \notin Terminated

(***************************************************************************)
(* C10. Taking a Stop right after a Stop leaves session, player,           *)
(* current_track_uri (None) and current_volume as the first Stop left      *)
(* them, sends no event and does not end the loop.                         *)
(***************************************************************************)
C10_SecondStopChangesNothing ==
  [][(Takes({"Stop"}) /\ consumed # <<>> /\ Last(consumed).type = "Stop")
     => /\ worker_state' = worker_state
        /\ current_track_uri' = None
        /\ event_tx' = event_tx
        /\ pc' = "drain"]_vars

\* two Stops in a row were taken by a worker that has a player
C10_Witness ==
  /\ Len(consumed) >= 2
  /\ consumed[Len(consumed)].type = "Stop"
  /\ consumed[Len(consumed) - 1].type = "Stop"
  /\ IsSome(player)
  /\ Len(engine_calls) = 2
  /\ pc = "drain"

(***************************************************************************)
(* More vocabulary.                                                        *)
(***************************************************************************)
\* this step is the worker handling the oldest event of the engine's channel
Drains ==
  /\ pc = "drain"
  /\ IsSome(player_event_channel)
  /\ engine_events # <<>>
  /\ engine_events' = Tail(engine_events)

(***************************************************************************)
(* C11. Handling an engine Unavailable event sends exactly one Error       *)
(* event, whose message names the track the engine reported, and leaves    *)
(* session, player, current_track_uri and current_volume as they were.     *)
(***************************************************************************)
C11_UnavailableIsOneErrorAndNoStateChange ==
  [][(Drains /\ Head(engine_events).kind = "Unavailable")
     => /\ EmitsOnly([type |-> "Error",
                      message |-> <<"Track unavailable: ",
                                    Head(engine_events).track_id>>])
        /\ worker_state' = worker_state]_vars

\* an Unavailable event about the loaded track A was handled; A is still current
C11_Witness ==
  /\ event_tx # <<>>
  /\ Last(event_tx) = [type |-> "Error", message |-> <<"Track unavailable: ", "A">>]
  /\ current_track_uri = Some("spotify:track:A")
  /\ IsSome(player)
  /\ engine_events = <<>>

(***************************************************************************)
(* C12. current_track_uri is Some(u) exactly when, among the successful    *)
(* Loads (those that reached player.load) and the Stops taken so far, the  *)
(* latest is a successful Load of u; it is None when the latest is a Stop  *)
(* or there is none.  No other command and no engine event counts.         *)
(***************************************************************************)
C12_TrackUriIsLastSuccessfulLoadSinceStop ==
  LET loads == {engine_calls[i].cmd :
                  i \in {j \in 1..Len(engine_calls) : engine_calls[j].op = "load"}}
      stops == {i \in 1..Len(consumed) : consumed[i].type = "Stop"}
      both == loads \cup stops
  IN IF both = {}
       THEN current_track_uri = None
       ELSE LET latest == CHOOSE x \in both : \A y \in both : y <= x IN
            IF latest \in loads
              THEN current_track_uri = Some(consumed[latest].uri)
              ELSE current_track_uri = None

\* Load(A) succeeded, a Load of an unparseable URI followed: A is still current
C12_Witness ==
  /\ Len(consumed) = 3
  /\ consumed[2].type = "Load" /\ consumed[2].uri = "spotify:track:A"
  /\ consumed[3].type = "Load" /\ consumed[3].uri \in InvalidUris
  /\ current_track_uri = Some("spotify:track:A")

(***************************************************************************)
(* C13. initialize() runs only while self.player is None, and at most one  *)
(* session/player pair is ever made: at most one initialize() call returns *)
(* Ok.                                                                     *)
(***************************************************************************)
C13_InitializeRunsOnlyWithoutPlayer ==
  /\ pc = "initialize" => IsNone(player)
  /\ Cardinality({i \in 1..Len(init_results) : init_results[i] = "ok"}) <= 1

(***************************************************************************)
(* C14. While initialize() is awaited no command leaves the channel and no *)
(* Shutdown event is sent; the step that ends the wait sends exactly one   *)
(* Initialized or InitializationFailed event.  So whenever a Shutdown      *)
(* event is on the event channel it is the last event, and every           *)
(* Initialize taken before it has its result event in front of it.         *)
(***************************************************************************)
C14_ResultEvents ==
  CountType(event_tx, "Initialized") + CountType(event_tx, "InitializationFailed")

C14_ShutdownWaitsForInitialize ==
  /\ [][pc = "initialize"
          => /\ consumed' = consumed
             /\ Len(command_rx') >= Len(command_rx)
             /\ SubSeq(command_rx', 1, Len(command_rx)) = command_rx
             /\ CountType(event_tx', "Shutdown") = CountType(event_tx, "Shutdown")
             /\ pc' \in {"initialize", "drain"}
             /\ pc' = "drain"
                  => (EmitsOne("Initialized") \/ EmitsOne("InitializationFailed"))]_vars
  /\ [](CountType(event_tx, "Shutdown") > 0
          => /\ Last(event_tx).type = "Shutdown"
             /\ C14_ResultEvents = CountType(consumed, "Initialize"))

\* initialize() is being awaited with a Shutdown next in the channel
C14_Witness ==
  /\ pc = "initialize"
  /\ command_rx # <<>>
  /\ Head(command_rx).type = "Shutdown"
  /\ event_tx = <<>>

(***************************************************************************)
(* C15. Until the worker has taken an Initialize command off the channel,  *)
(* session and player are None, no initialize() call is running or has     *)
(* returned (so no OAuth flow and no session connect), the player has      *)
(* been called for nothing, no event channel is held, and neither          *)
(* Initialized nor InitializationFailed has been sent.                     *)
(***************************************************************************)
C15_NoInitializationBeforeInitializeCommand ==
  CountType(consumed, "Initialize") = 0
    => /\ IsNone(session)
       /\ IsNone(player)
       /\ IsNone(player_event_channel)
       /\ pc # "initialize"
       /\ init_results = <<>>
       /\ engine_calls = <<>>
       /\ CountType(event_tx, "Initialized") = 0
       /\ CountType(event_tx, "InitializationFailed") = 0

\* two other commands handled, the first Initialize still in the channel
C15_Witness ==
  /\ Len(consumed) = 2
  /\ CountType(consumed, "Initialize") = 0
  /\ consumed[1].type = "Load"
  /\ command_rx # <<>>
  /\ Head(command_rx).type = "Initialize"

(***************************************************************************)
(* C18. A drain step takes the oldest engine event and puts at most one    *)
(* event at the end of the event channel: Playing gives Playing with       *)
(* duration_ms 0, Paused gives Paused, Stopped gives Stopped, EndOfTrack   *)
(* gives TrackEnded, TimeToPreloadNextTrack gives TimeToPreloadNextTrack,  *)
(* Loading gives Loading, Unavailable gives Error, and any other engine    *)
(* event gives nothing.  Events already sent stay in front of the new one, *)
(* so bridge events follow the order in which engine events were drained.  *)
(***************************************************************************)
C18_Mapped ==
  {<<"Playing", "Playing">>, <<"Paused", "Paused">>, <<"Stopped", "Stopped">>,
   <<"EndOfTrack", "TrackEnded">>,
   <<"TimeToPreloadNextTrack", "TimeToPreloadNextTrack">>,
   <<"Loading", "Loading">>, <<"Unavailable", "Error">>}

C19_IgnoredWithoutPlayer ==
  [][(Takes({"Play", "Pause", "Stop", "Seek"}) /\ IsNone(player))
       => /\ event_tx' = event_tx
          /\ engine_calls' = engine_calls
          /\ pc' \notin Terminated
          /\ worker_state' = worker_state
          /\ current_track_uri' = None
          /\ player_event_channel' = player_event_channel]_vars

\* Play, Stop and Seek all taken by a worker that never had a player
C19_Witness ==
  /\ Len(consumed) = 3
  /\ {consumed[i].type : i \in 1..3} = {"Play", "Stop", "Seek"}
  /\ IsNone(player)
  /\ event_tx = <<>>
  /\ engine_calls = <<>>
  /\ pc = "poll"

(***************************************************************************)
(* C20. Taking a Load whose URI SpotifyId::from_uri rejects sends exactly  *)
(* one Error event, calls the player for nothing and leaves                *)
(* current_track_uri (and the rest of the worker's state) as it was, with  *)
(* or without a player.                                                    *)
(***************************************************************************)
C20_UnparseableLoadIsOneErrorOnly ==
  [][(Takes({"Load"}) /\ IsNone(SpotifyIdFromUri(Head(command_rx).uri)))
       => /\ EmitsOne("Error")
          /\ engine_calls' = engine_calls
          /\ engine_track' = engine_track
          /\ worker_state' = worker_state
          /\ pc' \notin Terminated]_vars

\* an initialized worker with track B loaded has refused a Load of a bad URI
C20_Witness ==
  /\ Len(consumed) = 3
  /\ consumed[3].type = "Load"
  /\ consumed[3].uri \in InvalidUris
  /\ IsSome(player)
  /\ current_track_uri = Some("spotify:track:B")
  /\ Len(engine_calls) = 1
  /\ event_tx # <<>>
  /\ Last(event_tx).type = "Error"

(***************************************************************************)
(* C16. Once the UI has dropped the event receiver every send fails, and   *)
(* nothing else changes.  The worker always has a next step while run has  *)
(* not returned; it still takes the commands in the order sent and calls   *)
(* the player for them as before (the statements of C6 and C12 hold);      *)
(* taking Shutdown, or finding the command channel disconnected, still     *)
(* ends run after the (failing) send of the Shutdown event; and run ends   *)
(* in an error only by a Preload of an unparseable URI, never by a failed  *)
(* send.                                                                   *)
(***************************************************************************)
C16_FailedSendsChangeNothing ==
  /\ [](pc \notin Terminated => ENABLED WorkerStep)
  /\ []C6_CommandsAppliedInOrderSent
  /\ []C12_TrackUriIsLastSuccessfulLoadSinceStop
  /\ [][~event_rx_alive
          => /\ event_rx' = event_rx
             /\ Takes({"Shutdown"}) => (pc' = "exited" /\ EmitsOne("Shutdown"))
             /\ (pc = "poll" /\ command_rx = <<>> /\ ~sender_alive /\ pc' # pc)
                  => (pc' = "exited" /\ EmitsOne("Shutdown"))
             /\ (pc' = "failed" /\ pc # "failed")
                  => /\ Takes({"Preload"})
                     /\ IsNone(SpotifyIdFromUri(Head(command_rx).uri))]_vars

\* the receiver was dropped before any event; Initialize, a player call and
\* Shutdown were handled all the same, and run has returned
C16_Witness ==
  /\ ~event_rx_alive
  /\ event_rx = <<>>
  /\ Len(event_tx) >= 2
  /\ event_tx[1].type = "Initialized"
  /\ Last(event_tx).type = "Shutdown"
  /\ Len(engine_calls) >= 2
  /\ pc = "exited"

(***************************************************************************)
(* C17. Once get_oauth_credentials has dealt with the request line of the  *)
(* callback: if the line carries no state parameter, or one that differs   *)
(* from the generated state, the call has returned the error "CSRF state   *)
(* mismatch" and no request went to the token endpoint; and a request goes *)
(* to the token endpoint only after a line whose state parameter equals    *)
(* the generated state.                                                    *)
(*                                                                         *)
(* As stated this fails: the code parameter is looked for first, so a line *)
(* without one ends the call with "Failed to extract authorization code"   *)
(* whatever its state parameter.  The amended statement names that error   *)
(* for such lines and is otherwise the same.                               *)
(***************************************************************************)
C17_CallbackHandled == IsSome(request_line) /\ oauth_pc # "parse"
C17_StateRejected == QueryParam(request_line[1], "state") # state
C17_Failed(error) == oauth_result = Some([ok |-> FALSE, error |-> error])

C17_WrongStateIsStateMismatch ==
  /\ (C17_CallbackHandled /\ C17_StateRejected)
       => /\ C17_Failed(<<"CSRF state mismatch">>)
          /\ token_requests = <<>>
  /\ token_requests # <<>>
       => /\ IsSome(request_line)
          /\ QueryParam(request_line[1], "state") = state

C17_WrongStateFailsBeforeTokenExchange ==
  /\ (C17_CallbackHandled /\ C17_StateRejected)
       => /\ IF IsNone(QueryParam(request_line[1], "code"))
               THEN C17_Failed(<<"Failed to extract authorization code">>)
               ELSE C17_Failed(<<"CSRF state mismatch">>)
          /\ token_requests = <<>>
  /\ token_requests # <<>>
       => /\ IsSome(request_line)
          /\ QueryParam(request_line[1], "state") = state
          /\ Len(token_requests) = 1
          /\ Some(token_requests[1].code) = QueryParam(request_line[1], "code")

\* a callback with a code and the state of another flow has been refused
C17_Witness ==
  /\ C17_CallbackHandled
  /\ state = Some("S1")
  /\ QueryParam(request_line[1], "code") = Some("C1")
  /\ QueryParam(request_line[1], "state") = Some("S2")
  /\ C17_Failed(<<"CSRF state mismatch">>)
  /\ token_requests = <<>>
  /\ listener

(***************************************************************************)
(* C21. The Shutdown event is sent by the step in which run returns, and   *)
(* once it is on the event channel nothing follows it: no command leaves   *)
(* the command channel, no engine event leaves the player's event channel, *)
(* the player is called for nothing more, the worker's fields stay as they *)
(* are and no further event is sent.                                       *)
(***************************************************************************)
C21_NothingAfterShutdownEvent ==
  /\ [](CountType(event_tx, "Shutdown") > 0
          => /\ pc = "exited"
             /\ Last(event_tx).type = "Shutdown")
  /\ [][CountType(event_tx, "Shutdown") > 0
          => /\ event_tx' = event_tx
             /\ consumed' = consumed
             /\ engine_calls' = engine_calls
             /\ worker_state' = worker_state
             /\ Len(engine_events') >= Len(engine_events)
             /\ pc' = "exited"]_vars

\* run has returned after Shutdown with a command still queued and an engine
\* event still on the player's event channel
C21_Witness ==
  /\ pc = "exited"
  /\ consumed # <<>>
  /\ Last(consumed).type = "Shutdown"
  /\ command_rx # <<>>
  /\ engine_events # <<>>
  /\ Last(event_tx).type = "Shutdown"

(***************************************************************************)
(* C22. In get_oauth_credentials the browser is opened only with the       *)
(* callback listener bound; when TcpListener::bind fails the call returns  *)
(* its error and the browser has not been and will not be opened.          *)
(***************************************************************************)
C22_ListenerBoundBeforeBrowser ==
  /\ browser_opened => listener
  /\ oauth_result = Some([ok |-> FALSE, error |-> <<"io", "bind">>])
       => /\ ~browser_opened
          /\ ~listener
          /\ oauth_pc = "done"
          /\ accepted = 0
  /\ oauth_pc = "done" => ~ENABLED OpenBrowser

\* the browser has been opened and the flow waits on the bound listener
C22_Witness ==
  /\ browser_opened
  /\ listener
  /\ oauth_pc = "accept"
  /\ accepted = 0

(***************************************************************************)
(* C23. One get_oauth_credentials call accepts at most one connection, and *)
(* exactly one when it returns Ok; after the first accept it never waits   *)
(* in accept again.  The request line of that one connection decides: if   *)
(* it has no code parameter, or a state parameter other than the generated *)
(* state, the call has returned an error with one connection accepted and  *)
(* nothing sent to the token endpoint.                                     *)
(***************************************************************************)
C23_ExactlyOneConnection ==
  /\ accepted <= 1
  /\ accepted = 1 => (oauth_pc # "accept" /\ ~ENABLED AcceptConnection)
  /\ (IsSome(oauth_result) /\ oauth_result[1].ok) => accepted = 1
  /\ (/\ IsSome(request_line)
      /\ oauth_pc # "parse"
      /\ \/ IsNone(QueryParam(request_line[1], "code"))
         \/ QueryParam(request_line[1], "state") # state)
       => /\ oauth_pc = "done"
          /\ ~oauth_result[1].ok
          /\ accepted = 1
          /\ token_requests = <<>>

\* the one connection sent the right state but no code: the call has failed
C23_Witness ==
  /\ accepted = 1
  /\ IsSome(request_line)
  /\ QueryParam(request_line[1], "state") = state
  /\ IsNone(QueryParam(request_line[1], "code"))
  /\ oauth_pc = "done"
  /\ oauth_result = Some([ok |-> FALSE,
                          error |-> <<"Failed to extract authorization code">>])

(***************************************************************************)
(* C24. Once initialize() has chosen its credentials: get_oauth_credentials *)
(* has been called if and only if there is no cache or the cache holds no  *)
(* credentials.  With cached credentials no listener is bound, no browser  *)
(* is opened, no connection is accepted and nothing is sent to the token   *)
(* endpoint, at any time.                                                  *)
(***************************************************************************)
C24_OAuthOnlyWithoutCachedCredentials ==
  /\ oauth_pc \notin {"idle", "credentials"}
       => (IsSome(state) <=> ~HasCachedCredentials)
  /\ HasCachedCredentials
       => /\ oauth_pc \in {"credentials", "cached"}
          /\ IsNone(state)
          /\ ~listener
          /\ ~browser_opened
          /\ accepted = 0
          /\ token_requests = <<>>
          /\ IsNone(oauth_result)

\* cached credentials were found and taken
C24_Witness ==
  /\ oauth_pc = "cached"
  /\ cache = Some([credentials |-> Some("cached")])
  /\ ~listener
  /\ ~browser_opened

(***************************************************************************)
(* C25. When a Playing, Paused, Loading or EndOfTrack engine event is      *)
(* drained, the track_uri of the event sent for it is the URI of the track *)
(* the engine reported the event for.                                      *)
(***************************************************************************)
C25_UriOf(track_id) == CHOOSE u \in ValidUris : SpotifyIdFromUri(u) = Some(track_id)

C25_TrackUriIsTheEnginesTrack ==
  [][(Drains /\ Head(engine_events).kind \in {"Playing", "Paused", "Loading", "EndOfTrack"})
       => /\ Len(event_tx') = Len(event_tx) + 1
          /\ Last(event_tx').track_uri = C25_UriOf(Head(engine_events).track_id)]_vars

(***************************************************************************)
(* C26. Whenever self.player is Some, the event channel run drains is the  *)
(* channel of that player, so the events the current player emits reach    *)
(* handle_player_event.                                                    *)
(***************************************************************************)
C26_DrainedChannelIsCurrentPlayers ==
  IsSome(player) => (player_event_channel = player /\ ChannelLive)

(***************************************************************************)
(* C27. Every event on the event channel in front of the first Initialized *)
(* event (every event, when there is none) is an InitializationFailed, a   *)
(* VolumeChanged, a Shutdown or the Error of a failed Load; none is a      *)
(* Playing, Paused, Stopped, TrackEnded, TimeToPreloadNextTrack or Loading *)
(* event, nor the Error made from an engine Unavailable event.             *)
(***************************************************************************)
C27_BeforeFirstInitialized ==
  LET at == {i \in 1..Len(event_tx) : event_tx[i].type = "Initialized"}
      first == IF at = {} THEN Len(event_tx) + 1
               ELSE CHOOSE i \in at : \A j \in at : i <= j
  IN  1..(first - 1)

C27_NoEngineEventBeforeInitialized ==
  \A i \in C27_BeforeFirstInitialized :
    /\ event_tx[i].type \in {"InitializationFailed", "VolumeChanged", "Shutdown", "Error"}
    /\ event_tx[i].type = "Error" => event_tx[i].message[1] = "Failed to load track: "

\* a VolumeChanged came before Initialized, an engine event's translation after
C27_Witness ==
  /\ Len(event_tx) = 3
  /\ event_tx[1].type = "VolumeChanged"
  /\ event_tx[2].type = "Initialized"
  /\ event_tx[3].type \in {"Playing", "Paused", "Stopped", "TrackEnded",
                           "TimeToPreloadNextTrack", "Loading"}

C29_SelectionStaysInRange ==
  /\ [](IsSome(selected_device_index)
          => selected_device_index[1] \in 0..(get_device_count - 1))
  /\ [][LET n == remote_count + (IF librespot THEN 1 ELSE 0)
            old == selected_device_index
            new == selected_device_index'
        IN  /\ remote_count' = remote_count /\ librespot' = librespot
            /\ n = 0 => new = old
            /\ (n > 0 /\ key' = "down" /\ IsSome(old))
                 => new = Some(IF old[1] = n - 1 THEN 0 ELSE old[1] + 1)
            /\ (n > 0 /\ key' = "up" /\ IsSome(old))
                 => new = Some(IF old[1] = 0 THEN n - 1 ELSE old[1] - 1)
            /\ (key' \in {"down", "up"} /\ IsNone(old)) => IsNone(new)
            /\ (n > 0 /\ key' = "high") => new = Some(0)
            /\ (n > 0 /\ key' = "middle") => new = Some(n \div 2)
            /\ (n > 0 /\ key' = "low") => new = Some(n - 1)]_vars

\* down was pressed on the last of at least three entries: the first is selected
C29_Witness ==
  /\ key = "down"
  /\ get_device_count >= 3
  /\ selected_device_index = Some(0)

====
